---- MODULE Spec2Model ----
(***************************************************************************)
(* Verification model of the metrics aggregation (getApiMetrics) of the    *)
(* performance panel.  getApiMetrics folds a log of ClineMessages into an  *)
(* ApiMetrics record: one reverse search for the last request that carries *)
(* tokens, one forward pass over the log, one final average.               *)
(***************************************************************************)
EXTENDS Integers, Sequences, FiniteSets, TLC

\* Longest message log the model explores.
MaxLen == 2

-----------------------------------------------------------------------------
(* JavaScript values, as far as the aggregation looks at them.             *)

Undefined == [t |-> "undefined"]
Null == [t |-> "null"]
Num(n) == [t |-> "number", n |-> n]
\* a string is its literal text followed by the decimal numbers that string
\* concatenation (string + number) has appended to it
Str(s) == [t |-> "string", s |-> s, tail |-> <<>>]
\* a function object, such as the ones every object inherits
FunctionObject == [t |-> "function"]

\* typeof v === "number"
TypeofNumber(v) == v.t = "number"

\* ToBoolean(v): what `if (v)` and `v || x` test
Truthy(v) ==
    CASE v.t = "undefined" -> FALSE
      [] v.t = "null" -> FALSE
      [] v.t = "number" -> v.n # 0
      [] v.t = "string" -> v.s # "" \/ v.tail # <<>>
      [] OTHER -> TRUE

\* v || 0
OrZero(v) == IF Truthy(v) THEN v ELSE Num(0)

\* a + b for a number b: numeric addition when a is a number, string
\* concatenation when a is a string or an object that converts to one
Plus(a, b) ==
    CASE a.t = "number" -> Num(a.n + b.n)
      [] a.t = "string" -> [a EXCEPT !.tail = Append(@, b.n)]
      [] OTHER -> [t |-> "string", s |-> "function Object() { [native code] }", tail |-> <<b.n>>]

\* The property names every object literal inherits from Object.prototype
\* (represented by one of them).
ObjectPrototypeKeys == {"constructor"}

\* {} : an object literal without own properties
EmptyObject == [k \in {} |-> Undefined]

\* obj[key]: the own property, else the inherited one, else undefined
GetProp(obj, key) ==
    IF key \in DOMAIN obj THEN obj[key]
    ELSE IF key \in ObjectPrototypeKeys THEN FunctionObject
    ELSE Undefined

\* obj[key] = v
SetProp(obj, key, v) == [k \in (DOMAIN obj) \cup {key} |-> IF k = key THEN v ELSE obj[k]]

-----------------------------------------------------------------------------
(* Message texts.  A text is a string; the model keeps, instead of the     *)
(* characters, what the string denotes to JSON.parse.                      *)

PayloadFields ==
    {"tokensIn", "tokensOut", "cacheWrites", "cacheReads", "cost",
     "startTime", "endTime", "duration", "provider", "modelId"}

NoFields == [f \in PayloadFields |-> Undefined]

InvalidText == [t |-> "string", json |-> "invalid", o |-> NoFields]   \* 'not json'
NullText == [t |-> "string", json |-> "null", o |-> NoFields]         \* 'null'
ScalarText == [t |-> "string", json |-> "scalar", o |-> NoFields]     \* '123'
ObjectText(o) == [t |-> "string", json |-> "object", o |-> o]         \* '{...}'
EmptyText == [t |-> "string", json |-> "empty", o |-> NoFields]       \* ''

\* ToBoolean(message.text): false for undefined and for the empty string
HasText(text) == text.t = "string" /\ text.json # "empty"

\* JSON.parse(text): throws a SyntaxError on text that is not JSON
JSONParse(text) ==
    IF text.json \in {"invalid", "empty"} THEN [threw |-> TRUE, kind |-> "invalid", o |-> NoFields]
    ELSE [threw |-> FALSE, kind |-> text.json, o |-> text.o]

\* const { tokensIn, ... } = JSON.parse(text): destructuring null throws a
\* TypeError; a number, string or boolean has none of the properties
Destructure(text) ==
    LET v == JSONParse(text) IN
    IF v.threw \/ v.kind = "null" THEN [threw |-> TRUE, o |-> NoFields]
    ELSE IF v.kind = "object" THEN [threw |-> FALSE, o |-> v.o]
    ELSE [threw |-> FALSE, o |-> NoFields]

Message(type, say, text, ts) == [type |-> type, say |-> say, text |-> text, ts |-> ts]

-----------------------------------------------------------------------------
(* getApiMetrics                                                           *)

\* A quotient of two integers, in lowest terms (JavaScript's number
\* division, kept exact).
RECURSIVE GCD(_, _)
GCD(a, b) == IF b = 0 THEN a ELSE GCD(b, a % b)
Quotient(a, b) == LET g == GCD(a, b) IN [num |-> a \div g, den |-> b \div g]
Zero == [num |-> 0, den |-> 1]

\* (variant: the cache totals start at 0)
InitialResultZeroCaches ==
    [totalTokensIn |-> 0,
     totalTokensOut |-> 0,
     totalCacheWrites |-> Num(0),
     totalCacheReads |-> Num(0),
     totalCost |-> 0,
     contextTokens |-> 0,
     totalDuration |-> 0,
     requestCount |-> 0,
     averageDuration |-> Zero,
     requestsByProvider |-> EmptyObject,
     requestsByModel |-> EmptyObject,
     durationByProvider |-> EmptyObject,
     durationByModel |-> EmptyObject,
     performanceHistory |-> <<>>]

\* the result object as the function creates it
InitialResult ==
    [totalTokensIn |-> 0,
     totalTokensOut |-> 0,
     totalCacheWrites |-> Undefined,
     totalCacheReads |-> Undefined,
     totalCost |-> 0,
     contextTokens |-> 0,
     totalDuration |-> 0,
     requestCount |-> 0,
     averageDuration |-> Zero,
     requestsByProvider |-> EmptyObject,
     requestsByModel |-> EmptyObject,
     durationByProvider |-> EmptyObject,
     durationByModel |-> EmptyObject,
     performanceHistory |-> <<>>]

\* message.type === "say" && message.say === "api_req_started"
IsApiReqStarted(m) == m.type = "say" /\ m.say = "api_req_started"

\* the helper getTotalTokensFromMessage
getTotalTokensFromMessage(m) ==
    IF ~HasText(m.text) THEN Num(0)
    ELSE LET d == Destructure(m.text) IN
         IF d.threw THEN Num(0)
         ELSE Plus(Plus(Plus(OrZero(d.o.tokensIn), OrZero(d.o.tokensOut)),
                        OrZero(d.o.cacheWrites)), OrZero(d.o.cacheReads))

\* the predicate handed to find: a request that has any tokens
HasAnyTokens(m) ==
    /\ IsApiReqStarted(m)
    /\ LET n == getTotalTokensFromMessage(m) IN n.t = "number" /\ n.n > 0

\* (variant: find without reverse, the first message that has any tokens)
FindFirstApiReq(msgs) ==
    LET hits == {k \in 1..Len(msgs) : HasAnyTokens(msgs[k])} IN
    IF hits = {} THEN 0 ELSE CHOOSE k \in hits : \A j \in hits : k <= j

\* [...messages].reverse().find(...): the position of the last message that
\* has any tokens, 0 when find returns undefined
FindLastApiReq(msgs) ==
    LET hits == {k \in 1..Len(msgs) : HasAnyTokens(msgs[k])} IN
    IF hits = {} THEN 0 ELSE CHOOSE k \in hits : \A j \in hits : j <= k

\* the guard of the forEach callback
IsProcessed(m) == IsApiReqStarted(m) /\ HasText(m.text)

\* total += v under typeof v === "number"
AddIfNumber(total, v) == IF TypeofNumber(v) THEN total + v.n ELSE total

\* (variant: the guard is `if (v)`)
AddCacheIfTruthy(total, v) ==
    IF TypeofNumber(v) /\ Truthy(v)
    THEN Plus(IF total.t \in {"undefined", "null"} THEN Num(0) ELSE total, v)
    ELSE total

\* total = (total ?? 0) + v under typeof v === "number"
AddCache(total, v) ==
    IF TypeofNumber(v)
    THEN Plus(IF total.t \in {"undefined", "null"} THEN Num(0) ELSE total, v)
    ELSE total

\* (variant: endTime - startTime is preferred to the duration field)
RequestDurationFromTimesFirst(o) ==
    IF TypeofNumber(o.startTime) /\ TypeofNumber(o.endTime)
    THEN o.endTime.n - o.startTime.n
    ELSE IF TypeofNumber(o.duration) THEN o.duration.n ELSE 0

\* the duration of one request: the duration field, else endTime - startTime
RequestDuration(o) ==
    IF TypeofNumber(o.duration) THEN o.duration.n
    ELSE IF TypeofNumber(o.startTime) /\ TypeofNumber(o.endTime)
         THEN o.endTime.n - o.startTime.n
         ELSE 0

\* (variant: the request is counted only under `if (requestDuration > 0)`)
AccumulateTotalsCountingTimed(r, o) ==
    [r EXCEPT !.totalTokensIn = AddIfNumber(@, o.tokensIn),
              !.totalTokensOut = AddIfNumber(@, o.tokensOut),
              !.totalCacheWrites = AddCache(@, o.cacheWrites),
              !.totalCacheReads = AddCache(@, o.cacheReads),
              !.totalCost = AddIfNumber(@, o.cost),
              !.requestCount = IF RequestDuration(o) > 0 THEN @ + 1 ELSE @]

\* the running totals and the request counter
AccumulateTotals(r, o) ==
    [r EXCEPT !.totalTokensIn = AddIfNumber(@, o.tokensIn),
              !.totalTokensOut = AddIfNumber(@, o.tokensOut),
              !.totalCacheWrites = AddCache(@, o.cacheWrites),
              !.totalCacheReads = AddCache(@, o.cacheReads),
              !.totalCost = AddIfNumber(@, o.cost),
              !.requestCount = @ + 1]

\* map[key] = (map[key] || 0) + n, under `if (key)`
Track(map, key, n) ==
    IF Truthy(key) THEN SetProp(map, key.s, Plus(OrZero(GetProp(map, key.s)), Num(n)))
    ELSE map

\* (variant: tokensIn and tokensOut change places)
PushHistorySwapped(history, m, o, d) ==
    Append(history, [ts |-> m.ts, duration |-> d, tokensIn |-> o.tokensOut,
                     tokensOut |-> o.tokensIn, provider |-> o.provider,
                     modelId |-> o.modelId])

\* (variant: unshift instead of push)
UnshiftHistory(history, m, o, d) ==
    <<[ts |-> m.ts, duration |-> d, tokensIn |-> o.tokensIn,
       tokensOut |-> o.tokensOut, provider |-> o.provider,
       modelId |-> o.modelId]>> \o history

\* performanceHistory.push({...})
PushHistory(history, m, o, d) ==
    Append(history, [ts |-> m.ts, duration |-> d, tokensIn |-> o.tokensIn,
                     tokensOut |-> o.tokensOut, provider |-> o.provider,
                     modelId |-> o.modelId])

\* (variant: the block is entered under `if (requestDuration)`)
TrackPerformanceIfTruthy(r, m, o, d) ==
    IF d # 0
    THEN [r EXCEPT !.totalDuration = @ + d,
                   !.performanceHistory = PushHistory(@, m, o, d),
                   !.requestsByProvider = Track(@, o.provider, 1),
                   !.durationByProvider = Track(@, o.provider, d),
                   !.requestsByModel = Track(@, o.modelId, 1),
                   !.durationByModel = Track(@, o.modelId, d)]
    ELSE r

\* the block under `if (requestDuration > 0)`
TrackPerformance(r, m, o, d) ==
    IF d > 0
    THEN [r EXCEPT !.totalDuration = @ + d,
                   !.performanceHistory = PushHistory(@, m, o, d),
                   !.requestsByProvider = Track(@, o.provider, 1),
                   !.durationByProvider = Track(@, o.provider, d),
                   !.requestsByModel = Track(@, o.modelId, 1),
                   !.durationByModel = Track(@, o.modelId, d)]
    ELSE r

\* if (message === lastApiReq) contextTokens = getTotalTokensFromMessage(message)
\* (isLast: the message is the object that find returned)
SetContextTokens(r, m, isLast) ==
    IF isLast THEN [r EXCEPT !.contextTokens = getTotalTokensFromMessage(m).n] ELSE r

\* (variant: the request is counted before its text is parsed)
OnParseErrorCounted(r) == [r EXCEPT !.requestCount = @ + 1]

\* the catch block: console.error, nothing else
OnParseError(r) == r

\* one call of the forEach callback
ProcessMessage(r, m, isLast) ==
    IF ~IsProcessed(m) THEN r
    ELSE LET d == Destructure(m.text) IN
         IF d.threw THEN OnParseError(r)
         ELSE SetContextTokens(
                  TrackPerformance(AccumulateTotals(r, d.o), m, d.o, RequestDuration(d.o)),
                  m, isLast)

\* (variant: the divisor is the number of requests that had a duration)
AverageDurationOverTimed(r) ==
    IF r.requestCount > 0 /\ r.totalDuration > 0
    THEN Quotient(r.totalDuration, Len(r.performanceHistory))
    ELSE Zero

\* the average, computed after the pass
AverageDuration(r) ==
    IF r.requestCount > 0 /\ r.totalDuration > 0
    THEN Quotient(r.totalDuration, r.requestCount)
    ELSE Zero

\* the forEach pass over the first n messages
RECURSIVE ForEach(_, _, _)
ForEach(msgs, n, last) ==
    IF n = 0 THEN InitialResult
    ELSE ProcessMessage(ForEach(msgs, n - 1, last), msgs[n], n = last)

\* the whole function
getApiMetrics(msgs) ==
    LET r == ForEach(msgs, Len(msgs), FindLastApiReq(msgs)) IN
    [r EXCEPT !.averageDuration = AverageDuration(r)]

-----------------------------------------------------------------------------
(* The message logs the model explores.                                    *)

\* a payload with every field present
FullPayload ==
    [tokensIn |-> Num(1), tokensOut |-> Num(2), cacheWrites |-> Num(4),
     cacheReads |-> Num(8), cost |-> Num(1), startTime |-> Num(1),
     endTime |-> Num(4), duration |-> Num(5), provider |-> Str("a"),
     modelId |-> Str("m")]

ApiReq(o, ts) == Message("say", "api_req_started", ObjectText(o), ts)

\* messages the pass must leave alone: other tags, no text, text that is
\* not JSON, and JSON texts that are not objects
OtherMessages ==
    {Message("say", "text", ObjectText(FullPayload), 1),
     Message("ask", "undefined", ObjectText(FullPayload), 1),
     Message("say", "api_req_started", Undefined, 1),
     Message("say", "api_req_started", EmptyText, 1),
     Message("say", "api_req_started", InvalidText, 1),
     Message("say", "api_req_started", NullText, 1),
     Message("say", "api_req_started", ScalarText, 1)}

\* requests that differ in their token and cache fields
TokenMessages ==
    {ApiReq([NoFields EXCEPT !.tokensIn = a, !.tokensOut = b, !.cacheWrites = c,
                             !.cacheReads = d, !.duration = Num(5)], 1) :
        a \in {Undefined, Num(0), Num(1)}, b \in {Undefined, Num(2)},
        c \in {Undefined, Null, Num(0), Num(4)}, d \in {Undefined, Num(8)}}

\* requests that differ in their duration, startTime and endTime fields
TimingMessages ==
    {ApiReq([FullPayload EXCEPT !.duration = d, !.startTime = s, !.endTime = e], 1) :
        d \in {Undefined, Null, Num(0), Num(7), Num(-2)},
        s \in {Undefined, Num(1), Num(4)}, e \in {Undefined, Num(1), Num(4)}}

\* requests that differ in provider, model, duration and timestamp
OriginMessages ==
    {ApiReq([NoFields EXCEPT !.provider = p, !.modelId = m, !.duration = d], ts) :
        p \in {Undefined, Str(""), Str("a"), Str("constructor")},
        m \in {Undefined, Str("m")},
        d \in {Num(0), Num(3), Num(5)}, ts \in {1, 2}}

FewOtherMessages ==
    {Message("say", "text", ObjectText(FullPayload), 1),
     Message("say", "api_req_started", Undefined, 2),
     Message("say", "api_req_started", InvalidText, 1),
     Message("say", "api_req_started", NullText, 1)}

\* all logs of at most MaxLen messages over a set of messages
Logs(universe) == UNION {[1..n -> universe] : n \in 0..MaxLen}

-----------------------------------------------------------------------------
(* One call of getApiMetrics, step by step.                                *)

VARIABLES
    messages,         \* the argument
    pc,               \* "find", "forEach", "done"
    idx,              \* the position forEach is at
    lastApiReq,       \* the position of the message find returned, 0 for undefined
    result,           \* the result object
    requestDuration   \* the callback's local, as the last callback left it

\* The caller of getApiMetrics.
VARIABLES
    subject,          \* the log whose outputs the caller compares
    firstOutput,      \* what the first call on subject returned, once the caller holds it
    calls             \* the number of calls made

\* PerformanceView's component state.
VARIABLES
    effectRan,        \* the effect has run for the current clineMessages
    performanceData,  \* the rows handed to PerformanceChart
    providerData,     \* the rows handed to ProviderComparisonChart
    modelData         \* the rows handed to ModelComparisonChart

\* A DeepSeekHandler, its clock and its calls.
VARIABLES
    handler,          \* "new" before the constructor has run, then "ready"
    now,              \* Date.now()
    apiStatus,        \* this.apiStatus
    lastStatusCheck,  \* this.lastStatusCheck
    fetches,          \* the status fetches in flight
    issued,           \* the number of status fetches issued so far
    prompts,          \* the completePrompt calls, by number
    succeededAt,      \* the instants captured by the checks whose fetch succeeded
    writer,           \* the number of the fetch that wrote apiStatus last, 0 for none
    settled           \* the completePrompt call that returned or threw last

aggregatorVars == <<messages, pc, idx, lastApiReq, result, requestDuration>>
callerVars == <<subject, firstOutput, calls>>
viewVars == <<effectRan, performanceData, providerData, modelData>>
handlerVars ==
    <<handler, now, apiStatus, lastStatusCheck, fetches, issued, prompts, succeededAt, writer,
      settled>>

vars == <<aggregatorVars, callerVars, viewVars, handlerVars>>

\* no output held by the caller
None == [held |-> FALSE]

\* a caller that makes one call
OneCall == subject = <<>> /\ firstOutput = None /\ calls = 1

\* a view that is not mounted
NoView ==
    /\ effectRan = FALSE
    /\ performanceData = <<>> /\ providerData = <<>> /\ modelData = <<>>

\* new DeepSeekHandler(...) before the constructor body: the field initializers
FieldInitializers ==
    /\ apiStatus = [operational |-> TRUE, message |-> Undefined]
    /\ lastStatusCheck = 0

\* no handler in use
NoHandler ==
    /\ handler = "new" /\ now = 0
    /\ FieldInitializers
    /\ fetches = {} /\ issued = 0 /\ prompts = <<>>
    /\ succeededAt = {} /\ writer = 0 /\ settled = None

InitCall ==
    /\ pc = "find"
    /\ idx = 0
    /\ lastApiReq = 0
    /\ result = InitialResult
    /\ requestDuration = 0

\* one call of getApiMetrics on a log over a set of messages
InitOn(universe) ==
    /\ messages \in Logs(universe)
    /\ InitCall
    /\ OneCall /\ NoView /\ NoHandler

Init == InitOn(OtherMessages \cup TokenMessages)
InitTiming == InitOn(FewOtherMessages \cup TimingMessages)
InitOrigin == InitOn(FewOtherMessages \cup OriginMessages)

\* const lastApiReq = [...messages].reverse().find(...)
FindLast ==
    /\ pc = "find"
    /\ lastApiReq' = FindLastApiReq(messages)
    /\ idx' = 1
    /\ pc' = "forEach"
    /\ UNCHANGED <<messages, result, requestDuration, callerVars, viewVars, handlerVars>>

\* the callback on a message that fails its guard
SkipMessage ==
    /\ pc = "forEach" /\ idx <= Len(messages)
    /\ ~IsProcessed(messages[idx])
    /\ result' = ProcessMessage(result, messages[idx], idx = lastApiReq)
    /\ idx' = idx + 1
    /\ UNCHANGED <<messages, pc, lastApiReq, requestDuration, callerVars, viewVars, handlerVars>>

\* the callback on a message whose text throws in the try block
CatchError ==
    /\ pc = "forEach" /\ idx <= Len(messages)
    /\ IsProcessed(messages[idx])
    /\ Destructure(messages[idx].text).threw
    /\ result' = ProcessMessage(result, messages[idx], idx = lastApiReq)
    /\ idx' = idx + 1
    /\ UNCHANGED <<messages, pc, lastApiReq, requestDuration, callerVars, viewVars, handlerVars>>

\* the callback on a message it aggregates
Aggregate ==
    /\ pc = "forEach" /\ idx <= Len(messages)
    /\ IsProcessed(messages[idx])
    /\ ~Destructure(messages[idx].text).threw
    /\ result' = ProcessMessage(result, messages[idx], idx = lastApiReq)
    /\ requestDuration' = RequestDuration(Destructure(messages[idx].text).o)
    /\ idx' = idx + 1
    /\ UNCHANGED <<messages, pc, lastApiReq, callerVars, viewVars, handlerVars>>

\* the average and the return, after the last callback
Return ==
    /\ pc = "forEach" /\ idx > Len(messages)
    /\ result' = [result EXCEPT !.averageDuration = AverageDuration(result)]
    /\ pc' = "done"
    /\ UNCHANGED <<messages, idx, lastApiReq, requestDuration, callerVars, viewVars, handlerVars>>

Next == FindLast \/ SkipMessage \/ CatchError \/ Aggregate \/ Return

Spec == Init /\ [][Next]_vars
SpecTiming == InitTiming /\ [][Next]_vars
SpecOrigin == InitOrigin /\ [][Next]_vars

-----------------------------------------------------------------------------
(* Repeated calls of getApiMetrics by one caller.                          *)

\* Most calls one caller makes.
MaxCalls == 3

\* the messages of the logs that are aggregated repeatedly
CallMessages ==
    {Message("say", "text", ObjectText(FullPayload), 1),
     Message("say", "api_req_started", InvalidText, 1),
     ApiReq(FullPayload, 1),
     ApiReq([NoFields EXCEPT !.tokensIn = Num(1), !.cacheReads = Num(0),
                             !.startTime = Num(1), !.endTime = Num(4),
                             !.modelId = Str("m")], 2),
     ApiReq([NoFields EXCEPT !.duration = Num(0), !.provider = Str("a")], 2)}

\* (variant: the result object lives outside the function and is reused)
ReusedResult(previous) == previous

\* `const result: ApiMetrics = {...}`: every call creates its result object,
\* whatever an earlier call (previous) returned
FreshResult(previous) == InitialResult

\* the first call is the one on subject
InitCalls ==
    /\ messages \in Logs(CallMessages)
    /\ InitCall
    /\ subject = messages /\ firstOutput = None /\ calls = 1
    /\ NoView /\ NoHandler

\* the caller keeps what the call returned and calls getApiMetrics again
CallAgain ==
    /\ pc = "done" /\ calls < MaxCalls
    /\ \E log \in Logs(CallMessages) : messages' = log
    /\ firstOutput' = IF ~firstOutput.held /\ messages = subject
                      THEN [held |-> TRUE, output |-> result]
                      ELSE firstOutput
    /\ calls' = calls + 1
    /\ result' = FreshResult(result)
    /\ pc' = "find" /\ idx' = 0 /\ lastApiReq' = 0 /\ requestDuration' = 0
    /\ UNCHANGED <<subject, viewVars, handlerVars>>

NextCalls == FindLast \/ SkipMessage \/ CatchError \/ Aggregate \/ Return \/ CallAgain

SpecCalls == InitCalls /\ [][NextCalls]_vars

-----------------------------------------------------------------------------
(* PerformanceView: the effect that derives the charts' rows from          *)
(* clineMessages, and what the comparison charts compute from the rows.    *)

\* clineMessages.filter((msg) => msg.say === "api_req_started" && msg.text)
IsApiRequest(m) == m.say = "api_req_started" /\ HasText(m.text)

\* v || "unknown"
OrUnknown(v) == IF Truthy(v) THEN v ELSE Str("unknown")

\* the callback of map: the row of one message, or null (the catch) when
\* JSON.parse throws or when data is null and data.duration throws
ExtractRow(m) ==
    LET data == JSONParse(m.text) IN
    IF data.threw \/ data.kind = "null" THEN Null
    ELSE [t |-> "row",
          timestamp |-> m.ts,
          duration |-> OrZero(data.o.duration),
          tokensIn |-> OrZero(data.o.tokensIn),
          tokensOut |-> OrZero(data.o.tokensOut),
          provider |-> OrUnknown(data.o.provider),
          modelId |-> OrUnknown(data.o.modelId),
          cost |-> OrZero(data.o.cost)]

\* apiRequests.map(...).filter((item) => item !== null) over the first n messages
RECURSIVE ExtractedData(_, _)
ExtractedData(msgs, n) ==
    IF n = 0 THEN <<>>
    ELSE LET rows == ExtractedData(msgs, n - 1) IN
         IF IsApiRequest(msgs[n]) /\ ExtractRow(msgs[n]) # Null
         THEN Append(rows, ExtractRow(msgs[n]))
         ELSE rows

\* acc[key] = { provider: key, requestCount: 0, ... }
NewProviderStats(key) ==
    [provider |-> key, requestCount |-> 0, totalDuration |-> 0,
     totalTokensIn |-> 0, totalTokensOut |-> 0, totalCost |-> 0]

\* acc[key] = { modelId: key, requestCount: 0, ... }
NewModelStats(key) ==
    [modelId |-> key, requestCount |-> 0, totalDuration |-> 0,
     totalTokensIn |-> 0, totalTokensOut |-> 0, totalCost |-> 0]

NewStats(f, key) == IF f = "provider" THEN NewProviderStats(key) ELSE NewModelStats(key)

\* acc[key].requestCount += 1, acc[key].totalDuration += item.duration || 0, ...
AddItem(stats, item) ==
    [stats EXCEPT !.requestCount = @ + 1,
                  !.totalDuration = Plus(Num(@), OrZero(item.duration)).n,
                  !.totalTokensIn = Plus(Num(@), OrZero(item.tokensIn)).n,
                  !.totalTokensOut = Plus(Num(@), OrZero(item.tokensOut)).n,
                  !.totalCost = Plus(Num(@), OrZero(item.cost)).n]

\* One step of reduce, on the accumulator object acc kept as the sequence of
\* its own values in insertion order (what Object.values returns).  For a key
\* that every object inherits, !acc[key] is false without an own property:
\* no row is created and the updates land on the inherited object.
ReduceStep(acc, item, f) ==
    IF ~Truthy(item[f]) THEN acc
    ELSE LET key == item[f].s
             own == {k \in 1..Len(acc) : acc[k][f] = key} IN
         IF own # {}
         THEN LET k == CHOOSE x \in own : TRUE IN [acc EXCEPT ![k] = AddItem(@, item)]
         ELSE IF key \in ObjectPrototypeKeys THEN acc
         ELSE Append(acc, AddItem(NewStats(f, key), item))

\* Object.values(extractedData.reduce(..., {})), grouped by field f
RECURSIVE StatsBy(_, _, _)
StatsBy(rows, n, f) ==
    IF n = 0 THEN <<>> ELSE ReduceStep(StatsBy(rows, n - 1, f), rows[n], f)

\* the effect of PerformanceView
UseEffect ==
    /\ ~effectRan
    /\ LET extractedData == ExtractedData(messages, Len(messages)) IN
       /\ performanceData' = extractedData
       /\ providerData' = StatsBy(extractedData, Len(extractedData), "provider")
       /\ modelData' = StatsBy(extractedData, Len(extractedData), "modelId")
    /\ effectRan' = TRUE
    /\ UNCHANGED <<aggregatorVars, callerVars, handlerVars>>

\* JavaScript's a / b on integers: an exact quotient, or NaN (sign 0) or an
\* infinity (sign 1 or -1) when the divisor is 0
NaN == [finite |-> FALSE, sign |-> 0, q |-> Zero]
Infinity(sign) == [finite |-> FALSE, sign |-> sign, q |-> Zero]
Finite(q) == [finite |-> TRUE, sign |-> 0, q |-> q]
Divide(a, b) ==
    IF b > 0 THEN Finite(Quotient(a, b))
    ELSE IF b < 0 THEN Finite(Quotient(-a, -b))
    ELSE IF a = 0 THEN NaN
    ELSE Infinity(IF a > 0 THEN 1 ELSE -1)

\* const chartHeight = 200
chartHeight == 200

\* item.totalDuration / item.requestCount
avgDuration(item) == Divide(item.totalDuration, item.requestCount)

\* item.totalTokensOut / (item.totalDuration / 1000)
tokensPerSecond(item) == Divide(item.totalTokensOut * 1000, item.totalDuration)

\* Math.max(...values, 1): NaN if a value is NaN, else the largest
MathMax1(values) ==
    IF \E v \in values : ~v.finite /\ v.sign = 0 THEN NaN
    ELSE IF \E v \in values : ~v.finite /\ v.sign = 1 THEN Infinity(1)
    ELSE LET qs == {v.q : v \in {w \in values : w.finite}} \cup {[num |-> 1, den |-> 1]} IN
         Finite(CHOOSE x \in qs : \A y \in qs : y.num * x.den <= x.num * y.den)

\* (value / max) * chartHeight, for a max that Math.max(..., 1) returned
barHeight(value, max) ==
    IF (~value.finite /\ value.sign = 0) \/ (~max.finite /\ max.sign = 0) THEN NaN
    ELSE IF ~max.finite THEN (IF value.finite THEN Finite(Zero) ELSE NaN)
    ELSE IF ~value.finite THEN value
    ELSE Finite(Quotient(value.q.num * max.q.den * chartHeight, value.q.den * max.q.num))

\* the heights of the bars ProviderComparisonChart draws
ProviderBars(data) ==
    LET max == MathMax1({avgDuration(data[k]) : k \in 1..Len(data)}) IN
    {barHeight(avgDuration(data[k]), max) : k \in 1..Len(data)}

\* the heights of the bars ModelComparisonChart draws
ModelBars(data) ==
    LET max == MathMax1({tokensPerSecond(data[k]) : k \in 1..Len(data)}) IN
    {barHeight(tokensPerSecond(data[k]), max) : k \in 1..Len(data)}

\* the logs the view is mounted on
ViewMessages ==
    FewOtherMessages
    \cup {Message("say", "api_req_started", ScalarText, 1)}
    \cup {ApiReq([NoFields EXCEPT !.provider = p, !.modelId = m, !.tokensOut = out,
                                  !.duration = t[1], !.startTime = t[2], !.endTime = t[3]], 1) :
             p \in {Undefined, Str("a"), Str("constructor")},
             m \in {Undefined, Str("m")},
             out \in {Undefined, Num(2)},
             t \in {<<Num(5), Undefined, Undefined>>, <<Num(0), Undefined, Undefined>>,
                    <<Undefined, Num(1), Num(4)>>}}

InitView ==
    /\ messages \in Logs(ViewMessages)
    /\ InitCall
    /\ OneCall /\ NoView /\ NoHandler

NextView == FindLast \/ SkipMessage \/ CatchError \/ Aggregate \/ Return \/ UseEffect

SpecView == InitView /\ [][NextView]_vars

-----------------------------------------------------------------------------
(* DeepSeekHandler: the status check and completePrompt.                   *)

\* Most completePrompt calls on the handler.
MaxPrompts == 2

\* Most steps of the clock.
MaxTicks == 3

\* private statusCheckInterval = 5 * 60 * 1000
statusCheckInterval == 5 * 60 * 1000

\* Date.now() advances in steps of half an interval, from an instant that is
\* (as every real instant) more than an interval after the epoch
ClockStep == statusCheckInterval \div 2
FirstInstant == 2 * statusCheckInterval

DEEPSEEK_ERROR_CODES ==
    [invalid_api_key |-> Str("Invalid API key provided"),
     insufficient_quota |-> Str("Insufficient quota to complete the request"),
     rate_limit_exceeded |-> Str("Rate limit exceeded, please try again later"),
     model_not_found |-> Str("The requested model was not found"),
     context_length_exceeded |-> Str("Input exceeds maximum context length"),
     invalid_request |-> Str("Invalid request parameters"),
     internal_server_error |-> Str("Internal server error"),
     service_unavailable |-> Str("Service temporarily unavailable")]

\* what axios.get(DEEPSEEK_STATUS_URL) can resolve to: a status body
StatusBodies ==
    {[malformed |-> FALSE, indicator |-> "none", description |-> Str("All Systems Operational")],
     [malformed |-> FALSE, indicator |-> "major", description |-> Str("Partial Outage")],
     [malformed |-> FALSE, indicator |-> "major", description |-> Undefined],
     \* a body without the status object: status.status.indicator throws
     [malformed |-> TRUE, indicator |-> "", description |-> Undefined]}

\* what super.completePrompt can throw: anything, an Error among the rest
ThrownError(message, code, type) ==
    [t |-> "error", message |-> message, code |-> code, type |-> type]

BaseErrors ==
    {Undefined,
     ThrownError(Str("socket hang up"), Undefined, Undefined),
     ThrownError(Undefined, Undefined, Undefined),
     ThrownError(Str("401"), Str("invalid_api_key"), Undefined),
     ThrownError(Str("503"), Str("service_unavailable"), Undefined),
     ThrownError(Str("500"), Undefined, Str("internal_server_error")),
     ThrownError(Str("418"), Str("teapot"), Undefined)}

\* what super.completePrompt can return
BaseResults == {"answer"}

\* A string is kept as the sequence of the pieces it was concatenated from.

\* (variant: the warning is added under `if (this.apiStatus.message)`)
StatusWarningIfMessage(status) ==
    IF Truthy(status.message)
    THEN <<"DeepSeek API may be experiencing issues: ", status.message.s, ". ">>
    ELSE <<>>

\* let statusWarning = ""; if (!this.apiStatus.operational) statusWarning = ...
StatusWarning(status) ==
    IF ~status.operational
    THEN <<"DeepSeek API may be experiencing issues: ",
           IF Truthy(status.message) THEN status.message.s ELSE "Unknown status issue",
           ". ">>
    ELSE <<>>

\* formatDeepSeekError
formatDeepSeekError(error, status) ==
    IF ~Truthy(error) THEN <<"Unknown error occurred">>
    ELSE LET errorCode == IF Truthy(error.code) THEN error.code
                          ELSE IF Truthy(error.type) THEN error.type
                          ELSE Str("")
             known == Truthy(errorCode) /\ Truthy(GetProp(DEEPSEEK_ERROR_CODES, errorCode.s))
             errorMessage ==
                 IF known THEN <<GetProp(DEEPSEEK_ERROR_CODES, errorCode.s).s>>
                 ELSE IF Truthy(error.message) THEN <<error.message.s>>
                 ELSE <<"Unknown error">>
             statusNote ==
                 IF known /\ ~status.operational
                    /\ errorCode.s \in {"service_unavailable", "internal_server_error"}
                 THEN <<" (DeepSeek API Status: ",
                        IF Truthy(status.message) THEN status.message.s ELSE "Issues reported",
                        ")">>
                 ELSE <<>> IN
         <<"DeepSeek API Error: ">> \o errorMessage \o statusNote

\* the guard of checkApiStatus: now - this.lastStatusCheck < this.statusCheckInterval
Throttled(instant, last) == instant - last < statusCheckInterval

\* a status fetch in flight: its number, the `now` its check captured, and
\* the completePrompt call that awaits the check (0: the constructor, nobody)
Fetch(id, at, awaiter) == [id |-> id, at |-> at, awaiter |-> awaiter]

\* a completePrompt call that awaits its status check
AwaitingCheck == [phase |-> "check", statusWarning |-> <<>>, operational |-> TRUE]

\* the call goes on after `await this.checkApiStatus()`: the warning is
\* computed and super.completePrompt is called
AfterCheck(status) ==
    [phase |-> "base", statusWarning |-> StatusWarning(status),
     operational |-> status.operational]

\* the call is over
Over == [phase |-> "over", statusWarning |-> <<>>, operational |-> TRUE]

\* how a call ended: with which warning, computed under which status, after
\* super.completePrompt returned or threw what, returning or throwing which text
Settled(prompt, baseThrew, value, threw, outcome) ==
    [held |-> TRUE, statusWarning |-> prompt.statusWarning,
     operational |-> prompt.operational, baseThrew |-> baseThrew, value |-> value,
     threw |-> threw, outcome |-> outcome]

InitHandler ==
    /\ handler = "new" /\ now = FirstInstant
    /\ FieldInitializers
    /\ fetches = {} /\ issued = 0 /\ prompts = <<>>
    /\ succeededAt = {} /\ writer = 0 /\ settled = None
    /\ messages = <<>> /\ InitCall /\ OneCall /\ NoView

\* the constructor: this.checkApiStatus(), not awaited
Construct ==
    /\ handler = "new"
    /\ handler' = "ready"
    /\ IF Throttled(now, lastStatusCheck)
       THEN UNCHANGED <<fetches, issued>>
       ELSE /\ issued' = issued + 1
            /\ fetches' = fetches \cup {Fetch(issued + 1, now, 0)}
    /\ UNCHANGED <<now, apiStatus, lastStatusCheck, prompts, succeededAt, writer, settled>>
    /\ UNCHANGED <<aggregatorVars, callerVars, viewVars>>

\* time passes
Tick ==
    /\ handler = "ready"
    /\ now < FirstInstant + MaxTicks * ClockStep
    /\ now' = now + ClockStep
    /\ UNCHANGED <<handler, apiStatus, lastStatusCheck, fetches, issued, prompts,
                   succeededAt, writer, settled>>
    /\ UNCHANGED <<aggregatorVars, callerVars, viewVars>>

\* completePrompt is called: its status check returns at once when throttled
\* (and the call goes on to super.completePrompt), else issues a fetch
CompletePrompt ==
    /\ handler = "ready"
    /\ Len(prompts) < MaxPrompts
    /\ IF Throttled(now, lastStatusCheck)
       THEN /\ prompts' = Append(prompts, AfterCheck(apiStatus))
            /\ UNCHANGED <<fetches, issued>>
       ELSE /\ prompts' = Append(prompts, AwaitingCheck)
            /\ issued' = issued + 1
            /\ fetches' = fetches \cup {Fetch(issued + 1, now, Len(prompts) + 1)}
    /\ UNCHANGED <<handler, now, apiStatus, lastStatusCheck, succeededAt, writer, settled>>
    /\ UNCHANGED <<aggregatorVars, callerVars, viewVars>>

\* the awaiting completePrompt call, if any, goes on with the status it finds
Resume(f, status) ==
    IF f.awaiter = 0 THEN prompts ELSE [prompts EXCEPT ![f.awaiter] = AfterCheck(status)]

\* a status fetch resolves with a well-formed body: the try block completes
StatusFetchSucceeds(f) ==
    /\ f \in fetches
    /\ \E body \in {b \in StatusBodies : ~b.malformed} :
          /\ apiStatus' = [operational |-> body.indicator = "none",
                           message |-> body.description]
          /\ prompts' = Resume(f, apiStatus')
    /\ lastStatusCheck' = f.at
    /\ fetches' = fetches \ {f}
    /\ succeededAt' = succeededAt \cup {f.at}
    /\ writer' = f.id
    /\ UNCHANGED <<handler, now, issued, settled>>
    /\ UNCHANGED <<aggregatorVars, callerVars, viewVars>>

\* a status fetch rejects, or resolves with a malformed body: the catch block
StatusFetchFails(f) ==
    /\ f \in fetches
    /\ apiStatus' = [operational |-> TRUE, message |-> Undefined]
    /\ prompts' = Resume(f, apiStatus')
    /\ fetches' = fetches \ {f}
    /\ writer' = f.id
    /\ UNCHANGED <<handler, now, lastStatusCheck, issued, succeededAt, settled>>
    /\ UNCHANGED <<aggregatorVars, callerVars, viewVars>>

\* super.completePrompt returns: return statusWarning + result
BaseReturns(p) ==
    /\ p \in 1..Len(prompts) /\ prompts[p].phase = "base"
    /\ \E text \in BaseResults :
          settled' = Settled(prompts[p], FALSE, Str(text), FALSE,
                             prompts[p].statusWarning \o <<text>>)
    /\ prompts' = [prompts EXCEPT ![p] = Over]
    /\ UNCHANGED <<handler, now, apiStatus, lastStatusCheck, fetches, issued,
                   succeededAt, writer>>
    /\ UNCHANGED <<aggregatorVars, callerVars, viewVars>>

\* super.completePrompt throws: throw new Error(statusWarning + errorMessage)
BaseThrows(p) ==
    /\ p \in 1..Len(prompts) /\ prompts[p].phase = "base"
    /\ \E error \in BaseErrors :
          settled' = Settled(prompts[p], TRUE, error, TRUE,
                             prompts[p].statusWarning
                             \o formatDeepSeekError(error, apiStatus))
    /\ prompts' = [prompts EXCEPT ![p] = Over]
    /\ UNCHANGED <<handler, now, apiStatus, lastStatusCheck, fetches, issued,
                   succeededAt, writer>>
    /\ UNCHANGED <<aggregatorVars, callerVars, viewVars>>

NextHandler ==
    \/ Construct
    \/ Tick
    \/ CompletePrompt
    \/ \E f \in fetches : StatusFetchSucceeds(f)
    \/ \E f \in fetches : StatusFetchFails(f)
    \/ \E p \in 1..MaxPrompts : BaseReturns(p)
    \/ \E p \in 1..MaxPrompts : BaseThrows(p)

SpecHandler == InitHandler /\ [][NextHandler]_vars

-----------------------------------------------------------------------------
(* Vocabulary of the properties, stated on the log itself.                 *)

Tagged(m) == m.type = "say" /\ m.say = "api_req_started"

\* the text is one JSON.parse accepts
JsonParsable(m) ==
    Tagged(m) /\ m.text.t = "string" /\ m.text.json \in {"object", "scalar", "null"}

\* the text is JSON for a value other than null
ParsedNonNull(m) ==
    Tagged(m) /\ m.text.t = "string" /\ m.text.json \in {"object", "scalar"}

\* the text is one JSON.parse rejects
Malformed(m) ==
    Tagged(m) /\ m.text.t = "string" /\ m.text.json = "invalid"

\* the messages before position n that satisfy P
Before(n, P(_)) == {k \in 1..(n - 1) : P(messages[k])}

\* how far the pass has come: every message at "done", none at "find"
Scanned == IF pc = "done" THEN Len(messages) + 1 ELSE IF pc = "find" THEN 1 ELSE idx

DurationOf(m) == RequestDuration(m.text.o)
Timed(m) == ParsedNonNull(m) /\ DurationOf(m) > 0

\* the sum of the durations of the messages at the positions S
RECURSIVE SumDurations(_)
SumDurations(S) ==
    IF S = {} THEN 0
    ELSE LET k == CHOOSE x \in S : TRUE IN DurationOf(messages[k]) + SumDurations(S \ {k})

-----------------------------------------------------------------------------
\* C1 (as stated): when the call returns, requestCount is the number of
\* api_req_started messages whose text JSON.parse accepts.
C1_AsStated ==
    pc = "done" => result.requestCount = Cardinality(Before(Len(messages) + 1, JsonParsable))

\* C1 (amended): at every point of the pass, requestCount is the number of
\* api_req_started messages passed so far whose text is JSON for a value
\* other than null; every other message leaves it unchanged, and a counted
\* message is counted whatever its duration.
C1_RequestCount ==
    result.requestCount = Cardinality(Before(Scanned, ParsedNonNull))

\* a returned call whose log holds a 'null' text, which is not counted, and
\* a counted request without a positive duration
C1_Witness ==
    /\ pc = "done"
    /\ \E k \in 1..Len(messages) : messages[k].text = NullText /\ Tagged(messages[k])
    /\ \E k \in 1..Len(messages) :
          ParsedNonNull(messages[k]) /\ DurationOf(messages[k]) <= 0
    /\ result.requestCount = 1

\* C2: totalDuration is the sum of requestDuration over the parsed requests
\* with requestDuration > 0, and a callback on a request with requestDuration
\* <= 0 changes neither totalDuration, performanceHistory nor the four maps,
\* yet increments requestCount.
C2_TotalDuration ==
    /\ [](result.totalDuration =
            SumDurations(Before(Scanned, Timed)))
    /\ [][(/\ pc = "forEach" /\ idx <= Len(messages)
           /\ ParsedNonNull(messages[idx])
           /\ DurationOf(messages[idx]) <= 0)
          => /\ result'.totalDuration = result.totalDuration
             /\ result'.performanceHistory = result.performanceHistory
             /\ result'.requestsByProvider = result.requestsByProvider
             /\ result'.durationByProvider = result.durationByProvider
             /\ result'.requestsByModel = result.requestsByModel
             /\ result'.durationByModel = result.durationByModel
             /\ result'.requestCount = result.requestCount + 1]_vars

\* a returned call on a request with a positive duration followed by one
\* with a negative duration
C2_Witness ==
    /\ pc = "done" /\ Len(messages) = 2
    /\ Timed(messages[1])
    /\ ParsedNonNull(messages[2]) /\ DurationOf(messages[2]) < 0
    /\ result.totalDuration = DurationOf(messages[1])
    /\ result.requestCount = 2
    /\ Len(result.performanceHistory) = 1

\* tokensIn + tokensOut + cacheWrites + cacheReads of a message, a field
\* that is missing or not a number as 0
FieldOrZero(v) == IF v.t = "number" THEN v.n ELSE 0
CombinedTokens(m) ==
    IF Tagged(m) /\ m.text.t = "string" /\ m.text.json = "object"
    THEN FieldOrZero(m.text.o.tokensIn) + FieldOrZero(m.text.o.tokensOut)
         + FieldOrZero(m.text.o.cacheWrites) + FieldOrZero(m.text.o.cacheReads)
    ELSE 0
WithTokens(m) == Tagged(m) /\ CombinedTokens(m) > 0

\* C3: the returned contextTokens is the combined token count of the last
\* api_req_started message with combinedTokens > 0, and 0 without one.
C3_ContextTokens ==
    pc = "done" =>
        LET Q == Before(Len(messages) + 1, WithTokens) IN
        IF Q = {} THEN result.contextTokens = 0
        ELSE result.contextTokens =
                 CombinedTokens(messages[CHOOSE k \in Q : \A j \in Q : j <= k])

\* a returned call on two requests with different positive token counts:
\* the snapshot is the second one's, not the sum
C3_Witness ==
    /\ pc = "done" /\ Len(messages) = 2
    /\ WithTokens(messages[1]) /\ WithTokens(messages[2])
    /\ CombinedTokens(messages[1]) # CombinedTokens(messages[2])
    /\ result.contextTokens = CombinedTokens(messages[2])

\* C4: the returned averageDuration is totalDuration / requestCount when
\* both are positive, 0 otherwise; the divisor counts every parsed request.
C4_AverageDuration ==
    pc = "done" =>
        IF result.requestCount > 0 /\ result.totalDuration > 0
        THEN /\ result.averageDuration.den > 0
             /\ result.averageDuration.num * result.requestCount
                    = result.totalDuration * result.averageDuration.den
        ELSE result.averageDuration = Zero

\* a returned call on two parsed requests of which one has a duration, 7:
\* the average is 7/2
C4_Witness ==
    /\ pc = "done"
    /\ result.requestCount = 2 /\ Len(result.performanceHistory) = 1
    /\ result.totalDuration = 7
    /\ result.averageDuration = [num |-> 7, den |-> 2]

RemoveAt(msgs, k) == SubSeq(msgs, 1, k - 1) \o SubSeq(msgs, k + 1, Len(msgs))

\* C5: a request whose text JSON.parse rejects does not abort the pass and
\* updates nothing: the callback leaves the result as it was and the pass
\* goes on to the next message, and the returned result is the result for
\* the log without that message.
C5_MalformedSkipped ==
    /\ [](pc = "done" =>
            \A k \in 1..Len(messages) :
                Malformed(messages[k]) => result = getApiMetrics(RemoveAt(messages, k)))
    /\ [][(pc = "forEach" /\ idx <= Len(messages) /\ Malformed(messages[idx]))
          => (result' = result /\ pc' = "forEach" /\ idx' = idx + 1)]_vars

\* a returned call on a malformed request followed by a request with
\* tokens, which is aggregated
C5_Witness ==
    /\ pc = "done" /\ Len(messages) = 2
    /\ Malformed(messages[1])
    /\ ParsedNonNull(messages[2])
    /\ result.requestCount = 1
    /\ result.totalTokensOut = 2
    /\ result.contextTokens > 0

\* a parsed request that carries a numeric value in field f
Carries(m, f) ==
    Tagged(m) /\ m.text.t = "string" /\ m.text.json = "object" /\ m.text.o[f].t = "number"

\* the sum of field f of the messages at the positions S
RECURSIVE SumField(_, _)
SumField(S, f) ==
    IF S = {} THEN 0
    ELSE LET k == CHOOSE x \in S : TRUE IN messages[k].text.o[f].n + SumField(S \ {k}, f)

CacheTotalIs(total, f) ==
    LET S == {k \in 1..(Scanned - 1) : Carries(messages[k], f)} IN
    IF S = {} THEN total = Undefined ELSE total = Num(SumField(S, f))

\* C6: totalCacheWrites (totalCacheReads) is absent exactly as long as no
\* parsed request carried a numeric cacheWrites (cacheReads), else it is the
\* sum of those values; once present it stays present.
C6_CacheTotals ==
    /\ [](/\ CacheTotalIs(result.totalCacheWrites, "cacheWrites")
          /\ CacheTotalIs(result.totalCacheReads, "cacheReads"))
    /\ [][/\ result.totalCacheWrites # Undefined => result'.totalCacheWrites # Undefined
          /\ result.totalCacheReads # Undefined => result'.totalCacheReads # Undefined]_vars

\* a returned call in which the only cacheWrites was 0 and no request
\* carried cacheReads: totalCacheWrites is present with 0, totalCacheReads
\* is absent
C6_Witness ==
    /\ pc = "done" /\ Len(messages) = 2
    /\ Carries(messages[1], "cacheWrites")
    /\ ParsedNonNull(messages[2]) /\ ~Carries(messages[2], "cacheWrites")
    /\ result.totalCacheWrites = Num(0)
    /\ result.totalCacheReads = Undefined

\* the keys a log can hold
Keys == {"", "a", "m", "constructor"}

\* the timed requests scanned so far whose field f is the string p
TimedWith(f, p) ==
    {k \in 1..(Scanned - 1) : Timed(messages[k]) /\ messages[k].text.o[f] = Str(p)}

MapsAre(requests, durations, f) ==
    \A p \in Keys :
        LET S == TimedWith(f, p) IN
        IF S = {} \/ p = ""
        THEN p \notin DOMAIN requests /\ p \notin DOMAIN durations
        ELSE /\ p \in DOMAIN requests /\ requests[p] = Num(Cardinality(S))
             /\ p \in DOMAIN durations /\ durations[p] = Num(SumDurations(S))

\* C7: requestsByProvider[p] and durationByProvider[p] are the number and
\* the summed duration of the parsed requests with provider p and a
\* positive duration; a key exists only with such a request; an empty or
\* missing provider creates no key; the model maps likewise, by modelId.
C7_MapsByKey ==
    /\ MapsAre(result.requestsByProvider, result.durationByProvider, "provider")
    /\ MapsAre(result.requestsByModel, result.durationByModel, "modelId")

\* C8: the callback's requestDuration is the duration field when that is a
\* number, else endTime - startTime when both are numbers, else 0.
C8_RequestDuration ==
    [][Aggregate =>
        LET o == IF messages[idx].text.json = "object" THEN messages[idx].text.o
                 ELSE NoFields IN
        /\ o.duration.t = "number" => requestDuration' = o.duration.n
        /\ (o.duration.t # "number" /\ o.startTime.t = "number" /\ o.endTime.t = "number")
              => requestDuration' = o.endTime.n - o.startTime.n
        /\ (o.duration.t # "number" /\ ~(o.startTime.t = "number" /\ o.endTime.t = "number"))
              => requestDuration' = 0]_vars

\* a returned call on a request with duration 7 followed by one without a
\* duration, with startTime 1 and endTime 4: the second one's is 3
C8_Witness ==
    /\ pc = "done" /\ Len(messages) = 2
    /\ ParsedNonNull(messages[1]) /\ messages[1].text.o.duration = Num(7)
    /\ ParsedNonNull(messages[2]) /\ messages[2].text.o.duration = Undefined
    /\ messages[2].text.o.startTime = Num(1) /\ messages[2].text.o.endTime = Num(4)
    /\ requestDuration = 3
    /\ result.totalDuration = 10

\* the timestamps and durations of the timed requests among the first n
\* messages, in the order of the log
RECURSIVE TimedRequests(_)
TimedRequests(n) ==
    IF n = 0 THEN <<>>
    ELSE IF Timed(messages[n])
         THEN Append(TimedRequests(n - 1),
                     [ts |-> messages[n].ts, duration |-> DurationOf(messages[n])])
         ELSE TimedRequests(n - 1)

\* C9: performanceHistory holds one entry per parsed request with a positive
\* duration, in the order of the log, with that message's ts and duration.
C9_HistoryOrder ==
    [k \in 1..Len(result.performanceHistory) |->
        [ts |-> result.performanceHistory[k].ts,
         duration |-> result.performanceHistory[k].duration]]
    = TimedRequests(Scanned - 1)

\* a returned call on two timed requests whose timestamps are out of order
C9_Witness ==
    /\ pc = "done" /\ Len(result.performanceHistory) = 2
    /\ messages[1].ts > messages[2].ts
    /\ result.performanceHistory[1].ts = messages[1].ts
    /\ result.performanceHistory[1].duration # result.performanceHistory[2].duration

\* C10: for a log without a parsed api_req_started message (the empty log
\* included) the returned totals are 0, the cache totals absent, the maps
\* and the history empty.
C10_NothingParsed ==
    (pc = "done" /\ Before(Len(messages) + 1, ParsedNonNull) = {}) =>
        /\ result.totalTokensIn = 0 /\ result.totalTokensOut = 0
        /\ result.totalCost = 0 /\ result.contextTokens = 0
        /\ result.totalDuration = 0 /\ result.requestCount = 0
        /\ result.averageDuration = Zero
        /\ result.totalCacheWrites = Undefined /\ result.totalCacheReads = Undefined
        /\ DOMAIN result.requestsByProvider = {} /\ DOMAIN result.durationByProvider = {}
        /\ DOMAIN result.requestsByModel = {} /\ DOMAIN result.durationByModel = {}
        /\ result.performanceHistory = <<>>

\* a returned call on a log of two messages none of which is parsed: a
\* malformed request and a message with another tag
C10_Witness ==
    /\ pc = "done" /\ Len(messages) = 2
    /\ Malformed(messages[1])
    /\ ~Tagged(messages[2])
    /\ result.requestCount = 0
    /\ result.totalCacheWrites = Undefined

\* C11: a later call on the log of the first call returns what the first
\* call returned, whatever logs were aggregated in between.
C11_NoCrossCallState ==
    (pc = "done" /\ firstOutput.held /\ messages = subject) => result = firstOutput.output

\* the third call, on the log of the first, has returned; that log holds a
\* parsed request with a duration
C11_Witness ==
    /\ pc = "done" /\ calls = 3
    /\ firstOutput.held /\ messages = subject
    /\ result.requestCount > 0 /\ result.totalDuration > 0
    /\ result = firstOutput.output

\* the summary totals of the result are numbers
TotalsAreNumbers ==
    /\ result.totalTokensIn \in Int /\ result.totalTokensOut \in Int
    /\ result.totalCost \in Int /\ result.contextTokens \in Int
    /\ result.totalDuration \in Int /\ result.requestCount \in Int
    /\ result.averageDuration.num \in Int /\ result.averageDuration.den > 0
    /\ result.totalCacheWrites.t \in {"undefined", "number"}
    /\ result.totalCacheReads.t \in {"undefined", "number"}

RECURSIVE TimedPositions(_)
TimedPositions(n) ==
    IF n = 0 THEN <<>>
    ELSE IF Timed(messages[n]) THEN Append(TimedPositions(n - 1), n)
         ELSE TimedPositions(n - 1)

RowsByKey(data, f) ==
    [key \in {data[k][f] : k \in 1..Len(data)} |->
        LET row == data[CHOOSE k \in 1..Len(data) : data[k][f] = key] IN
        <<Num(row.requestCount), Num(row.totalDuration)>>]

\* two maps of the result as a map from key to <<requests, duration>>
MapsByKey(requests, durations) ==
    [key \in DOMAIN requests |-> <<requests[key], durations[key]>>]

\* C13: what PerformanceView hands to the charts is what getApiMetrics
\* returns for the same log: the history rows are performanceHistory, the
\* provider rows are requestsByProvider and durationByProvider, the model
\* rows are requestsByModel and durationByModel.
C13_ViewPresentsAggregator ==
    (pc = "done" /\ effectRan) =>
        /\ [k \in 1..Len(performanceData) |->
               [ts |-> performanceData[k].timestamp,
                duration |-> performanceData[k].duration.n]]
           = [k \in 1..Len(result.performanceHistory) |->
               [ts |-> result.performanceHistory[k].ts,
                duration |-> result.performanceHistory[k].duration]]
        /\ RowsByKey(providerData, "provider")
           = MapsByKey(result.requestsByProvider, result.durationByProvider)
        /\ RowsByKey(modelData, "modelId")
           = MapsByKey(result.requestsByModel, result.durationByModel)

\* a bar between 0 and chartHeight
BarWithinChart(h) == h.finite /\ 0 <= h.q.num /\ h.q.num <= chartHeight * h.q.den

\* C18: every row handed to the comparison charts has requestCount >= 1 and
\* totalDuration > 0, so no quotient has a zero divisor and every bar lies
\* between 0 and chartHeight.
C18_RowsDivisible ==
    effectRan =>
        /\ \A k \in 1..Len(providerData) :
              providerData[k].requestCount >= 1 /\ providerData[k].totalDuration > 0
        /\ \A k \in 1..Len(modelData) :
              modelData[k].requestCount >= 1 /\ modelData[k].totalDuration > 0
        /\ \A h \in ProviderBars(providerData) \cup ModelBars(modelData) : BarWithinChart(h)

-----------------------------------------------------------------------------
(* DeepSeekHandler claims.                                                 *)

\* the text begins with the warning, and goes on with the given first piece
Continues(outcome, statusWarning, piece) ==
    /\ Len(outcome) > Len(statusWarning)
    /\ SubSeq(outcome, 1, Len(statusWarning)) = statusWarning
    /\ outcome[Len(statusWarning) + 1] = piece

\* what C14 holds of every call: the warning is there exactly when the status
\* found after the check is not operational, a result is returned behind the
\* warning, and a failure of the base call is thrown
WarnedOutcome ==
    /\ (settled.statusWarning # <<>>) <=> ~settled.operational
    /\ settled.threw <=> settled.baseThrew
    /\ ~settled.baseThrew => settled.outcome = settled.statusWarning \o <<settled.value.s>>

\* C14 as stated: completePrompt returns statusWarning + result when the base
\* call succeeds, and when the base call fails it throws an Error whose
\* message is statusWarning + a string beginning "DeepSeek API Error: "; the
\* warning is non-empty iff apiStatus.operational is false after the check,
\* and the failure is never swallowed.
C14_AsStated ==
    settled.held =>
        /\ WarnedOutcome
        /\ settled.baseThrew =>
              Continues(settled.outcome, settled.statusWarning, "DeepSeek API Error: ")

\* C14, amended: as stated, except that when the base call throws a falsy
\* value (undefined, null) the message is statusWarning + "Unknown error
\* occurred", without the "DeepSeek API Error: " prefix.
C14_WarningThenError ==
    settled.held =>
        /\ WarnedOutcome
        /\ settled.baseThrew =>
              IF Truthy(settled.value)
              THEN Continues(settled.outcome, settled.statusWarning, "DeepSeek API Error: ")
              ELSE settled.outcome = settled.statusWarning \o <<"Unknown error occurred">>

\* a call under a reported incident whose base call threw a falsy value
C14_Witness ==
    /\ settled.held /\ settled.baseThrew
    /\ ~Truthy(settled.value)
    /\ ~settled.operational
    /\ settled.statusWarning # <<>>

\* C15: once a status fetch has succeeded, no status fetch is issued by a
\* call that starts less than statusCheckInterval after it, and such a call
\* leaves apiStatus and lastStatusCheck unchanged.
C15_NoFetchWithinInterval ==
    [][(handler' # handler \/ Len(prompts') > Len(prompts))
       /\ (\E t \in succeededAt : now - t < statusCheckInterval)
       => /\ issued' = issued
          /\ apiStatus' = apiStatus
          /\ lastStatusCheck' = lastStatusCheck]_vars

\* C16: when a status fetch fails, apiStatus becomes operational with no
\* message, lastStatusCheck is unchanged, the awaiting completePrompt goes on
\* to the base call without a warning, and the very next checkApiStatus call
\* is not throttled.
C16_FailedFetchRetried ==
    [][\A f \in fetches :
          StatusFetchFails(f) =>
             /\ apiStatus' = [operational |-> TRUE, message |-> Undefined]
             /\ lastStatusCheck' = lastStatusCheck
             /\ f.awaiter # 0 =>
                   /\ prompts'[f.awaiter].phase = "base"
                   /\ prompts'[f.awaiter].statusWarning = <<>>
             /\ ~Throttled(now', lastStatusCheck')]_vars

\* C17: lastStatusCheck never decreases, and the response of an
\* earlier-started status fetch never overwrites the apiStatus written by a
\* later-started one.
C17_NoStaleOverwrite ==
    [][/\ lastStatusCheck' >= lastStatusCheck
       /\ writer' # writer => writer' > writer]_vars

====
